---- MODULE Spec2Model ----
(***************************************************************************)
(* Model of fediverse_username_extractor.py: the two recognition rules of  *)
(* extract_fediverse_usernames, convert_url_to_username, clean_usernames   *)
(* and the driver main.  A Python str is a sequence of one-character       *)
(* strings; a regular expression is modelled by its backtracking           *)
(* semantics (greedy quantifiers, longest alternative tried first).        *)
(***************************************************************************)
EXTENDS Naturals, Sequences, FiniteSets, TLC

VARIABLES
    pc,                 \* the statement main (or the function under test) is at
    argc,               \* len(sys.argv)
    listname,           \* sys.argv[1]
    file_extension,     \* os.path.splitext(input_file)[1].lower()
    pdftotext_ok,       \* the outcome of subprocess.run(["pdftotext", ...])
    text,               \* the text read from the input file
    usernames,          \* the set extract_fediverse_usernames returns
    candidates,         \* the argument of a direct call of clean_usernames
    cleaned_usernames,  \* the list clean_usernames returns
    recleaned,          \* clean_usernames of that list again
    unique_usernames,   \* list(set(cleaned_usernames))
    csv_file,           \* fediverse_usernames.csv
    csv_before,         \* fediverse_usernames.csv as the run found it
    exit_status         \* the exit status of the process

vars == <<pc, argc, listname, file_extension, pdftotext_ok, text, usernames,
          candidates, cleaned_usernames, recleaned, unique_usernames,
          csv_file, csv_before, exit_status>>

----------------------------------------------------------------------------
(* Character classes of Python's re module on str patterns.                *)

\* \w : letters, digits and the underscore
WordChars ==
    {"a","b","c","d","e","f","g","h","i","j","k","l","m","n","o","p","q",
     "r","s","t","u","v","w","x","y","z","F","0","1","_"}

\* \s : whitespace
SpaceChars == {" ", "\n", "\t"}

\* every other character the texts of the model use
OtherChars == {"@", ".", "-", "/", ":", ")", ","}

\* the alphabet of the model
Chars == WordChars \cup SpaceChars \cup OtherChars

\* [\w._-] of username_pattern and of the local-part filter
LocalClass == WordChars \cup {".", "_", "-"}

\* [\w.-] of username_pattern and of the domain filter
DomainClass == WordChars \cup {".", "-"}

\* [^/\s] of both url patterns
NotSlashSpace == Chars \ ({"/"} \cup SpaceChars)

\* [^/] of the host group of convert_url_to_username
NotSlash == Chars \ {"/"}

----------------------------------------------------------------------------
(* String helpers.                                                         *)

Max(S) == CHOOSE x \in S : \A y \in S : y <= x

\* s[i..] starts with the literal lit
StartsAt(s, i, lit) ==
    /\ i >= 1
    /\ i + Len(lit) - 1 <= Len(s)
    /\ \A j \in 1..Len(lit) : s[i + j - 1] = lit[j]

\* str.count(c)
Count(s, c) == Cardinality({i \in 1..Len(s) : s[i] = c})

\* the characters of s that are in Keep, in order: re.sub(r'[^...]', '', s)
RECURSIVE Filter(_, _)
Filter(s, Keep) ==
    IF s = <<>> THEN <<>>
    ELSE IF Head(s) \in Keep THEN <<Head(s)>> \o Filter(Tail(s), Keep)
         ELSE Filter(Tail(s), Keep)

\* str.split(c): the pieces between the occurrences of c
RECURSIVE Split(_, _)
Split(s, c) ==
    LET at == {i \in 1..Len(s) : s[i] = c}
    IN  IF at = {} THEN <<s>>
        ELSE LET i == CHOOSE k \in at : \A j \in at : k <= j
             IN  <<SubSeq(s, 1, i - 1)>> \o Split(SubSeq(s, i + 1, Len(s)), c)

\* str.rstrip(c)
RECURSIVE RStrip(_, _)
RStrip(s, c) ==
    IF s # <<>> /\ s[Len(s)] = c THEN RStrip(SubSeq(s, 1, Len(s) - 1), c) ELSE s

\* the elements of a sequence
Range(q) == {q[i] : i \in 1..Len(q)}

\* every ordering of a finite set (the iteration orders of a Python set)
Orders(S) ==
    {q \in [1..Cardinality(S) -> S] : \A i, j \in 1..Cardinality(S) : q[i] = q[j] => i = j}

----------------------------------------------------------------------------
(* Regular-expression matching.                                            *)

\* the length of the longest run of characters of class In starting at s[i]
RECURSIVE RunLen(_, _, _)
RunLen(s, i, In) ==
    IF i >= 1 /\ i <= Len(s) /\ s[i] \in In THEN 1 + RunLen(s, i + 1, In) ELSE 0

\* the mutant: r'@[\w._-]+@[\w.-]*\w+', a domain of one character matches
UsernameMatchEnd_short_domain(s, i) ==
    IF ~StartsAt(s, i, <<"@">>) THEN 0
    ELSE
      LET K  == RunLen(s, i + 1, LocalClass)
          Ms(p) == {m \in 0..RunLen(s, p, DomainClass) :
                        RunLen(s, p + m, WordChars) >= 1}
          Ks == {k \in 1..K : /\ StartsAt(s, i + 1 + k, <<"@">>)
                              /\ Ms(i + 2 + k) # {}}
      IN  IF Ks = {} THEN 0
          ELSE LET k == Max(Ks)
                   p == i + 2 + k
                   m == Max(Ms(p))
               IN  p + m + RunLen(s, p + m, WordChars)

\* username_pattern = r'@[\w._-]+@[\w.-]+\w+' tried at position i: the
\* position after the match, or 0.  Each greedy group takes the longest
\* length for which the rest of the pattern still matches.
UsernameMatchEnd(s, i) ==
    IF ~StartsAt(s, i, <<"@">>) THEN 0
    ELSE
      LET K  == RunLen(s, i + 1, LocalClass)
          \* lengths m of [\w.-]+ at position p after which \w+ matches
          Ms(p) == {m \in 1..RunLen(s, p, DomainClass) :
                        RunLen(s, p + m, WordChars) >= 1}
          Ks == {k \in 1..K : /\ StartsAt(s, i + 1 + k, <<"@">>)
                              /\ Ms(i + 2 + k) # {}}
      IN  IF Ks = {} THEN 0
          ELSE LET k == Max(Ks)
                   p == i + 2 + k
                   m == Max(Ms(p))
               IN  p + m + RunLen(s, p + m, WordChars)

\* re.findall(username_pattern, text): leftmost non-overlapping matches
RECURSIVE FindAllUsernames(_, _)
FindAllUsernames(s, i) ==
    IF i > Len(s) THEN <<>>
    ELSE LET e == UsernameMatchEnd(s, i)
         IN  IF e > 0 THEN <<SubSeq(s, i, e - 1)>> \o FindAllUsernames(s, e)
             ELSE FindAllUsernames(s, i + 1)

\* the position after 'https?://' tried at position i, or 0
SchemeEnd(s, i) ==
    IF StartsAt(s, i, <<"h","t","t","p","s",":","/","/">>) THEN i + 8
    ELSE IF StartsAt(s, i, <<"h","t","t","p",":","/","/">>) THEN i + 7
    ELSE 0

\* the tail '<Host>+/@[^/\s]+/?' tried at position p: <<host length,
\* local length, slash length>>, or <<>>
UrlTail(s, p, InHost) ==
    LET Ks == {k \in 1..RunLen(s, p, InHost) :
                  /\ StartsAt(s, p + k, <<"/", "@">>)
                  /\ RunLen(s, p + k + 2, NotSlashSpace) >= 1}
    IN  IF Ks = {} THEN <<>>
        ELSE LET k == Max(Ks)
                 m == RunLen(s, p + k + 2, NotSlashSpace)
                 t == IF StartsAt(s, p + k + 2 + m, <<"/">>) THEN 1 ELSE 0
             IN  <<k, m, t>>

\* url_pattern = r'https?://[^/\s]+/@[^/\s]+/?' of
\* extract_fediverse_usernames tried at position i: the position after the
\* match, or 0
UrlMatchEnd(s, i) ==
    LET p == SchemeEnd(s, i)
    IN  IF p = 0 THEN 0
        ELSE LET g == UrlTail(s, p, NotSlashSpace)
             IN  IF g = <<>> THEN 0 ELSE p + g[1] + 2 + g[2] + g[3]

\* re.findall(url_pattern, text)
RECURSIVE FindAllUrls(_, _)
FindAllUrls(s, i) ==
    IF i > Len(s) THEN <<>>
    ELSE LET e == UrlMatchEnd(s, i)
         IN  IF e > 0 THEN <<SubSeq(s, i, e - 1)>> \o FindAllUrls(s, e)
             ELSE FindAllUrls(s, i + 1)

----------------------------------------------------------------------------
(* The functions of the program.                                           *)

None == <<"None">>

\* the mutant: domain and username exchanged
convert_url_to_username_swapped(url) ==
    LET p == SchemeEnd(url, 1)
        g == IF p = 0 THEN <<>> ELSE UrlTail(url, p, NotSlash)
    IN  IF g = <<>> THEN None
        ELSE <<"@">> \o SubSeq(url, p, p + g[1] - 1)
                \o <<"@">> \o SubSeq(url, p + g[1] + 2, p + g[1] + 1 + g[2])

\* re.match(r'https?://([^/]+)/@([^/\s]+)/?', url), then
\* f"@{username.rstrip('/')}@{domain}", or None
convert_url_to_username(url) ==
    LET p == SchemeEnd(url, 1)
        g == IF p = 0 THEN <<>> ELSE UrlTail(url, p, NotSlash)
    IN  IF g = <<>> THEN None
        ELSE LET domain   == SubSeq(url, p, p + g[1] - 1)
                 username == SubSeq(url, p + g[1] + 2, p + g[1] + 1 + g[2])
             IN  <<"@">> \o RStrip(username, "/") \o <<"@">> \o domain

\* the candidates of the inline rule
standard_usernames(t) == Range(FindAllUsernames(t, 1))

\* the candidates of the profile-URL rule
url_usernames(t) ==
    {convert_url_to_username(u) : u \in Range(FindAllUrls(t, 1))} \ {None}

extract_fediverse_usernames(t) == standard_usernames(t) \cup url_usernames(t)

\* the mutant: the characters outside the allowed sets are kept
clean_one_unfiltered(username) ==
    IF Count(username, "@") # 2 THEN <<>>
    ELSE LET parts == Split(username, "@")
         IN  IF parts[2] # <<>> /\ parts[3] # <<>>
             THEN << <<"@">> \o parts[2] \o <<"@">> \o parts[3] >>
             ELSE <<>>

\* the mutant: any candidate of two or more '@' is accepted
clean_one_any_count(username) ==
    LET parts == Split(username, "@")
    IN  IF Len(parts) < 3 THEN <<>>
        ELSE LET cleaned_user   == Filter(parts[2], LocalClass)
                 cleaned_domain == Filter(parts[3], DomainClass)
             IN  IF cleaned_user # <<>> /\ cleaned_domain # <<>>
                 THEN << <<"@">> \o cleaned_user \o <<"@">> \o cleaned_domain >>
                 ELSE <<>>

\* the mutant: the handle rebuilt without its leading '@'
clean_one_no_prefix(username) ==
    IF Count(username, "@") # 2 THEN <<>>
    ELSE LET parts == Split(username, "@")
             cleaned_user   == Filter(parts[2], LocalClass)
             cleaned_domain == Filter(parts[3], DomainClass)
         IN  IF cleaned_user # <<>> /\ cleaned_domain # <<>>
             THEN << cleaned_user \o <<"@">> \o cleaned_domain >>
             ELSE <<>>

\* lines 72-87, one candidate: <<the handle>>, or <<>> when it is dropped
clean_one(username) ==
    IF Count(username, "@") # 2 THEN <<>>
    ELSE LET parts == Split(username, "@")
         IN  IF Len(parts) # 3 THEN <<>>
             ELSE LET cleaned_user   == Filter(parts[2], LocalClass)
                      cleaned_domain == Filter(parts[3], DomainClass)
                  IN  IF cleaned_user # <<>> /\ cleaned_domain # <<>>
                      THEN << <<"@">> \o cleaned_user \o <<"@">> \o cleaned_domain >>
                      ELSE <<>>

\* clean_usernames over the candidates in iteration order: a list
RECURSIVE clean_usernames(_)
clean_usernames(q) ==
    IF q = <<>> THEN <<>> ELSE clean_one(Head(q)) \o clean_usernames(Tail(q))

----------------------------------------------------------------------------
(* The texts and candidates the model runs on.                             *)

At == <<"@">>
Sp == <<" ">>
https == <<"h","t","t","p","s",":","/","/">>
http == <<"h","t","t","p",":","/","/">>
alice == <<"a","l","i","c","e">>
bob == <<"b","o","b">>
example_social == <<"e","x","a","m","p","l","e",".","s","o","c","i","a","l">>
other_town == <<"o","t","h","e","r",".","t","o","w","n">>
ex_com == <<"e","x",".","c","o","m">>
friends == <<"f","r","i","e","n","d","s">>
mylist == <<"m","y">>

alice_at_example == At \o alice \o At \o example_social
bob_at_other == At \o bob \o At \o other_town
bob_at_ex == At \o bob \o At \o ex_com
url_alice == https \o example_social \o <<"/","@">> \o alice
url_alice_slash == url_alice \o <<"/">>
\* two handles run together without whitespace
run_together == At \o alice \o At \o bob \o At \o example_social
\* a profile URL followed by a closing parenthesis
url_bob_paren == https \o ex_com \o <<"/","@">> \o bob \o <<")">>
\* a URL whose host holds an '@'
url_host_at == http \o <<"a","@","b","/","@","c">>
\* a domain of one character
short_domain == <<"@","a","@","b">>
\* a domain followed by a hyphen and a dot
trailing_punct == <<"@","a","_","b","@","c","-","d",".","e","-",".">>
today == <<"t","o","d","a","y",".">>

\* "Follow @alice@example.social and https://other.town/@bob/ today."
example_text ==
    <<"F","o","l","l","o","w">> \o Sp \o alice_at_example \o Sp
        \o <<"a","n","d">> \o Sp \o https \o other_town \o <<"/","@">> \o bob
        \o <<"/">> \o Sp \o today

\* the whitespace-separated pieces of the texts main reads
Tokens ==
    {alice_at_example, url_alice, url_alice_slash, run_together, bob_at_ex,
     url_bob_paren, example_text}

\* further texts extract_fediverse_usernames is called on
MoreTexts == {url_host_at, short_domain, trailing_punct, today}

\* the most whitespace-separated tokens a text of main holds
MaxTokens == 2

\* the texts of n tokens separated by one space
RECURSIVE JoinedTexts(_)
JoinedTexts(n) ==
    IF n = 0 THEN {<<>>}
    ELSE IF n = 1 THEN Tokens
    ELSE {t \o Sp \o k : t \in JoinedTexts(n - 1), k \in Tokens}

MainTexts == UNION {JoinedTexts(n) : n \in 0..MaxTokens}

ListNames == {friends, mylist}

Extensions == {".pdf", ".md", ".txt", ".docx"}

\* a file: absent, or its lines
Absent == [exists |-> FALSE, lines |-> <<>>]
File(lines) == [exists |-> TRUE, lines |-> lines]

header == <<"l","i","s","t","n","a","m","e",",","u","s","e","r","n","a","m","e">>

\* the output of an earlier run
OldCsv == File(<<header, mylist \o <<",">> \o bob_at_other>>)

----------------------------------------------------------------------------
(* main.                                                                   *)

Init ==
    /\ pc = "main"
    /\ argc \in {2, 3, 4}
    /\ IF argc = 3
       THEN listname \in ListNames /\ file_extension \in Extensions
       ELSE listname = <<>> /\ file_extension = ""
    /\ pdftotext_ok = "not run"
    /\ text = <<>>
    /\ usernames = {}
    /\ candidates = {}
    /\ cleaned_usernames = <<>>
    /\ recleaned = <<>>
    /\ unique_usernames = <<>>
    /\ csv_before \in {Absent, OldCsv}
    /\ csv_file = csv_before
    /\ exit_status = "running"

\* lines 96-98: the wrong number of arguments
UsageError ==
    /\ pc = "main"
    /\ argc # 3
    /\ pc' = "exited"
    /\ exit_status' = 1
    /\ UNCHANGED <<argc, listname, file_extension, pdftotext_ok, text, usernames,
                   candidates, cleaned_usernames, recleaned, unique_usernames,
                   csv_file, csv_before>>

\* lines 100-102
ReadArgs ==
    /\ pc = "main"
    /\ argc = 3
    /\ pc' = "load"
    /\ UNCHANGED <<argc, listname, file_extension, pdftotext_ok, text, usernames,
                   candidates, cleaned_usernames, recleaned, unique_usernames,
                   csv_file, csv_before, exit_status>>

\* lines 104-118, pdftotext succeeds: the text is what it wrote
PdfToText ==
    /\ pc = "load"
    /\ file_extension = ".pdf"
    /\ pdftotext_ok' = "ok"
    /\ text' \in MainTexts
    /\ pc' = "extract"
    /\ UNCHANGED <<argc, listname, file_extension, usernames, candidates,
                   cleaned_usernames, recleaned, unique_usernames, csv_file,
                   csv_before, exit_status>>

\* lines 107-111: CalledProcessError
PdfToTextFails ==
    /\ pc = "load"
    /\ file_extension = ".pdf"
    /\ pdftotext_ok' = "failed"
    /\ pc' = "exited"
    /\ exit_status' = 1
    /\ UNCHANGED <<argc, listname, file_extension, text, usernames, candidates,
                   cleaned_usernames, recleaned, unique_usernames, csv_file,
                   csv_before>>

\* lines 119-122
ReadTextFile ==
    /\ pc = "load"
    /\ file_extension \in {".md", ".txt"}
    /\ text' \in MainTexts
    /\ pc' = "extract"
    /\ UNCHANGED <<argc, listname, file_extension, pdftotext_ok, usernames,
                   candidates, cleaned_usernames, recleaned, unique_usernames,
                   csv_file, csv_before, exit_status>>

\* the mutant: the message printed, the run not ended
UnsupportedFormat_continues ==
    /\ pc = "load"
    /\ file_extension \notin {".pdf", ".md", ".txt"}
    /\ pc' = "extract"
    /\ UNCHANGED <<argc, listname, file_extension, pdftotext_ok, text, usernames,
                   candidates, cleaned_usernames, recleaned, unique_usernames,
                   csv_file, csv_before, exit_status>>

\* lines 123-125
UnsupportedFormat ==
    /\ pc = "load"
    /\ file_extension \notin {".pdf", ".md", ".txt"}
    /\ pc' = "exited"
    /\ exit_status' = 1
    /\ UNCHANGED <<argc, listname, file_extension, pdftotext_ok, text, usernames,
                   candidates, cleaned_usernames, recleaned, unique_usernames,
                   csv_file, csv_before>>

\* line 129
Extract ==
    /\ pc = "extract"
    /\ usernames' = extract_fediverse_usernames(text)
    /\ pc' = "clean"
    /\ UNCHANGED <<argc, listname, file_extension, pdftotext_ok, text, candidates,
                   cleaned_usernames, recleaned, unique_usernames, csv_file,
                   csv_before, exit_status>>

\* line 132: the set is iterated in an order of its own
Clean ==
    /\ pc = "clean"
    /\ \E order \in Orders(usernames) :
           cleaned_usernames' = clean_usernames(order)
    /\ pc' = "dedup"
    /\ UNCHANGED <<argc, listname, file_extension, pdftotext_ok, text, usernames,
                   candidates, recleaned, unique_usernames, csv_file, csv_before,
                   exit_status>>

\* the mutant: list(cleaned_usernames), no set
Dedup_keeping_duplicates ==
    /\ pc = "dedup"
    /\ unique_usernames' = cleaned_usernames
    /\ pc' = "write"
    /\ UNCHANGED <<argc, listname, file_extension, pdftotext_ok, text, usernames,
                   candidates, cleaned_usernames, recleaned, csv_file, csv_before,
                   exit_status>>

\* line 135
Dedup ==
    /\ pc = "dedup"
    /\ unique_usernames' \in Orders(Range(cleaned_usernames))
    /\ pc' = "write"
    /\ UNCHANGED <<argc, listname, file_extension, pdftotext_ok, text, usernames,
                   candidates, cleaned_usernames, recleaned, csv_file, csv_before,
                   exit_status>>

\* the mutant: the file opened with "a"
csv_written_appending(before, name, handles) ==
    File(before.lines \o <<header>>
            \o [i \in 1..Len(handles) |-> name \o <<",">> \o handles[i]])

\* lines 138-142: the file opened with "w", the header, a row for each handle
csv_written(before, name, handles) ==
    File(<<header>> \o [i \in 1..Len(handles) |-> name \o <<",">> \o handles[i]])

WriteCsv ==
    /\ pc = "write"
    /\ csv_file' = csv_written(csv_file, listname, unique_usernames)
    /\ pc' = "done"
    /\ exit_status' = 0
    /\ UNCHANGED <<argc, listname, file_extension, pdftotext_ok, text, usernames,
                   candidates, cleaned_usernames, recleaned, unique_usernames,
                   csv_before>>

Next ==
    \/ UsageError
    \/ ReadArgs
    \/ PdfToText
    \/ PdfToTextFails
    \/ ReadTextFile
    \/ UnsupportedFormat
    \/ Extract
    \/ Clean
    \/ Dedup
    \/ WriteCsv

Spec == Init /\ [][Next]_vars

----------------------------------------------------------------------------
(* extract_fediverse_usernames, then clean_usernames, called on a text.    *)

\* the longest text drawn from TextAlphabet
MaxTextLen == 6

\* a word character, a dot, an '@', a space
TextAlphabet == {"a", ".", "@", " "}

\* the strings of length n over the alphabet A
RECURSIVE Strings(_, _)
Strings(A, n) ==
    IF n = 0 THEN {<<>>}
    ELSE {<<c>> \o t : c \in A, t \in Strings(A, n - 1)}

StringsUpTo(A, n) == UNION {Strings(A, k) : k \in 0..n}

\* the longest host and local-part of a generated URL
MaxPartLen == 2

UrlPartAlphabet == {"a", "@", ")"}

UrlParts == StringsUpTo(UrlPartAlphabet, MaxPartLen) \ {<<>>}

\* scheme://host/@local, with and without the trailing slash
UrlTexts ==
    {sch \o h \o <<"/", "@">> \o l \o t :
        sch \in {http, https}, h \in UrlParts, l \in UrlParts,
        t \in {<<>>, <<"/">>}}

ExtractTexts ==
    StringsUpTo(TextAlphabet, MaxTextLen) \cup UrlTexts \cup Tokens \cup MoreTexts

InitExtract ==
    /\ pc = "call extract"
    /\ text \in ExtractTexts
    /\ argc = 0
    /\ listname = <<>>
    /\ file_extension = ""
    /\ pdftotext_ok = "not run"
    /\ usernames = {}
    /\ candidates = {}
    /\ cleaned_usernames = <<>>
    /\ recleaned = <<>>
    /\ unique_usernames = <<>>
    /\ csv_before = Absent
    /\ csv_file = Absent
    /\ exit_status = "running"

\* usernames = extract_fediverse_usernames(text)
CallExtract ==
    /\ pc = "call extract"
    /\ usernames' = extract_fediverse_usernames(text)
    /\ pc' = "extracted"
    /\ UNCHANGED <<argc, listname, file_extension, pdftotext_ok, text, candidates,
                   cleaned_usernames, recleaned, unique_usernames, csv_file,
                   csv_before, exit_status>>

\* cleaned_usernames = clean_usernames(usernames)
CallCleanExtracted ==
    /\ pc = "extracted"
    /\ \E order \in Orders(usernames) :
           cleaned_usernames' = clean_usernames(order)
    /\ pc' = "extracted and cleaned"
    /\ UNCHANGED <<argc, listname, file_extension, pdftotext_ok, text, usernames,
                   candidates, recleaned, unique_usernames, csv_file, csv_before,
                   exit_status>>

NextExtract == CallExtract \/ CallCleanExtracted

SpecExtract == InitExtract /\ [][NextExtract]_vars

----------------------------------------------------------------------------
(* clean_usernames called on a set of candidates, and on its own result.   *)

\* the longest candidate drawn from CandidateAlphabet
MaxCandLen == 4

\* the most candidates of one call
MaxCandidates == 2

CandidateAlphabet == {"@", "a"}

\* '@bob)@ex.com', the candidate of https://ex.com/@bob)
bob_paren_at_ex == At \o bob \o <<")">> \o At \o ex_com

CandidatePool ==
    StringsUpTo(CandidateAlphabet, MaxCandLen)
        \cup {run_together, bob_at_ex, bob_paren_at_ex, <<"x","@","a","@",")">>,
              <<"@",")","@","a">>}

\* the subsets of S of at most n elements
RECURSIVE SubsetsUpTo(_, _)
SubsetsUpTo(S, n) ==
    IF n = 0 THEN {{}}
    ELSE LET T == SubsetsUpTo(S, n - 1)
         IN  T \cup {t \cup {c} : t \in T, c \in S}

InitClean ==
    /\ pc = "call clean"
    /\ candidates \in SubsetsUpTo(CandidatePool, MaxCandidates)
    /\ argc = 0
    /\ listname = <<>>
    /\ file_extension = ""
    /\ pdftotext_ok = "not run"
    /\ text = <<>>
    /\ usernames = {}
    /\ cleaned_usernames = <<>>
    /\ recleaned = <<>>
    /\ unique_usernames = <<>>
    /\ csv_before = Absent
    /\ csv_file = Absent
    /\ exit_status = "running"

\* cleaned_usernames = clean_usernames(candidates), the set iterated in an
\* order of its own
CallClean ==
    /\ pc = "call clean"
    /\ \E order \in Orders(candidates) :
           cleaned_usernames' = clean_usernames(order)
    /\ pc' = "cleaned"
    /\ UNCHANGED <<argc, listname, file_extension, pdftotext_ok, text, usernames,
                   candidates, recleaned, unique_usernames, csv_file, csv_before,
                   exit_status>>

\* recleaned = clean_usernames(cleaned_usernames)
CallCleanAgain ==
    /\ pc = "cleaned"
    /\ recleaned' = clean_usernames(cleaned_usernames)
    /\ pc' = "recleaned"
    /\ UNCHANGED <<argc, listname, file_extension, pdftotext_ok, text, usernames,
                   candidates, cleaned_usernames, unique_usernames, csv_file,
                   csv_before, exit_status>>

NextClean == CallClean \/ CallCleanAgain

SpecClean == InitClean /\ [][NextClean]_vars

----------------------------------------------------------------------------
(* Properties of main, checked under Spec.                                 *)

\* no element occurs twice in the sequence q
NoRepeats(q) == \A i, j \in 1..Len(q) : q[i] = q[j] => i = j

\* the rows of the file after its first line
DataRows(f) == [i \in 1..(Len(f.lines) - 1) |-> f.lines[i + 1]]

\* the whitespace-separated pieces of a text
Words(t) == Range(Split(t, " ")) \ {<<>>}

\* C1: when main is done the file holds the header and exactly one row
\* '<listname>,<handle>' for each handle of the final set, whatever the file
\* held before; for the example text and the list name friends these are the
\* two rows friends,@alice@example.social and friends,@bob@other.town.
C1_CsvHoldsHeaderAndOneRowPerHandle ==
    pc = "done" =>
        /\ csv_file.exists
        /\ Len(csv_file.lines) = 1 + Cardinality(Range(cleaned_usernames))
        /\ csv_file.lines[1] = header
        /\ Range(DataRows(csv_file)) =
              {listname \o <<",">> \o h : h \in Range(cleaned_usernames)}
        /\ (text = example_text /\ listname = friends) =>
              /\ Len(csv_file.lines) = 3
              /\ Range(DataRows(csv_file)) =
                    {friends \o <<",">> \o alice_at_example,
                     friends \o <<",">> \o bob_at_other}

C1_Witness ==
    /\ pc = "done"
    /\ text = example_text
    /\ listname = friends
    /\ csv_before = OldCsv
    /\ Len(csv_file.lines) = 3

\* the text holds @alice@example.social, inline or as a profile URL, as a
\* whitespace-separated piece
HoldsAlice(t) ==
    Words(t) \cap {alice_at_example, url_alice, url_alice_slash} # {}

\* C3: the final collection and the rows written never hold a string twice,
\* and a text that holds @alice@example.social, however many times, gives
\* it exactly once.
C3_HandleWrittenExactlyOnce ==
    pc = "done" =>
        /\ NoRepeats(unique_usernames)
        /\ NoRepeats(DataRows(csv_file))
        /\ HoldsAlice(text) =>
              /\ Cardinality({i \in 1..Len(unique_usernames) :
                                unique_usernames[i] = alice_at_example}) = 1
              /\ Cardinality({i \in 2..Len(csv_file.lines) :
                                csv_file.lines[i] =
                                    listname \o <<",">> \o alice_at_example}) = 1

C3_Witness ==
    /\ pc = "done"
    /\ text = alice_at_example \o Sp \o url_alice_slash
    /\ unique_usernames = <<alice_at_example>>

\* C7: a wrong argument count, an unsupported extension and a failure of
\* pdftotext each end the run with exit status 1, the file as the run found
\* it and nothing extracted.
C7_FatalErrorsLeaveCsvUntouched ==
    /\ pc = "exited" =>
          /\ exit_status = 1
          /\ csv_file = csv_before
          /\ text = <<>>
          /\ usernames = {}
          /\ cleaned_usernames = <<>>
          /\ unique_usernames = <<>>
    /\ (argc # 3 /\ pc # "main") => pc = "exited"
    /\ (argc = 3 /\ file_extension \notin {".pdf", ".md", ".txt"}
           /\ pc \notin {"main", "load"}) => pc = "exited"
    /\ pdftotext_ok = "failed" => pc = "exited"
    /\ csv_file # csv_before => pc = "done"

C7_Witness ==
    /\ pc = "exited"
    /\ file_extension = ".docx"
    /\ csv_before = Absent
    /\ ~csv_file.exists

\* C10 as claimed: the list clean_usernames returns holds no string twice.
C10_CleanedListHasNoRepeats == NoRepeats(cleaned_usernames)

\* C10 as amended: the list clean_usernames returns may hold a string
\* twice; list(set(...)) in main holds each of its strings exactly once.
C10_SetRemovesRepeats ==
    pc \in {"write", "done"} =>
        /\ Range(unique_usernames) = Range(cleaned_usernames)
        /\ Len(unique_usernames) = Cardinality(Range(cleaned_usernames))

C10_Witness ==
    /\ pc = "write"
    /\ text = bob_at_ex \o Sp \o url_bob_paren
    /\ Len(cleaned_usernames) = 2
    /\ unique_usernames = <<bob_at_ex>>

----------------------------------------------------------------------------
(* Properties of extract_fediverse_usernames followed by clean_usernames,   *)
(* checked under SpecExtract.                                              *)

\* '@<local>@<domain>': the local-part and the domain non-empty, the
\* local-part of word characters, dots, underscores and hyphens, the domain
\* of word characters, dots and hyphens
Canonical(h) ==
    /\ Len(h) >= 4
    /\ h[1] = "@"
    /\ Count(h, "@") = 2
    /\ \E j \in 3..(Len(h) - 1) :
          /\ h[j] = "@"
          /\ \A k \in 2..(j - 1) : h[k] \in WordChars \cup {".", "_", "-"}
          /\ \A k \in (j + 1)..Len(h) : h[k] \in WordChars \cup {".", "-"}

\* C2: every handle clean_usernames returns for the candidates of
\* extract_fediverse_usernames is in canonical form.
C2_CleanedHandlesAreCanonical ==
    pc = "extracted and cleaned" =>
        \A h \in Range(cleaned_usernames) : Canonical(h)

C2_Witness ==
    /\ pc = "extracted and cleaned"
    /\ text = url_bob_paren
    /\ usernames = {bob_paren_at_ex}
    /\ cleaned_usernames = <<bob_at_ex>>

\* no slash and no whitespace
PlainRun(q) == q # <<>> /\ \A k \in 1..Len(q) : q[k] # "/" /\ q[k] \notin SpaceChars

\* the ways to read u as <scheme><host>/@<local>[/]: <<scheme, host, local>>
UrlReadings(u) ==
    {r \in {<<sch, SubSeq(u, Len(sch) + 1, a), SubSeq(u, a + 3, b)>> :
                sch \in {http, https}, a \in 1..Len(u), b \in 1..Len(u)} :
        /\ PlainRun(r[2])
        /\ PlainRun(r[3])
        /\ \E t \in {<<>>, <<"/">>} : u = r[1] \o r[2] \o <<"/", "@">> \o r[3] \o t}

\* C4: every match of the profile-URL rule reads as <scheme><host>/@<local>
\* with or without a trailing slash and is converted to '@<local>@<host>',
\* the same handle with the slash as without it; a text that is such a URL
\* is matched whole.
C4_UrlConvertedToHandle ==
    pc = "extracted" =>
        /\ \A u \in Range(FindAllUrls(text, 1)) :
              /\ UrlReadings(u) # {}
              /\ \A r \in UrlReadings(u) :
                    LET handle == At \o r[3] \o At \o r[2]
                        bare   == r[1] \o r[2] \o <<"/", "@">> \o r[3]
                    IN  /\ convert_url_to_username(u) = handle
                        /\ convert_url_to_username(bare) = handle
                        /\ convert_url_to_username(bare \o <<"/">>) = handle
                        /\ handle \in usernames
        /\ UrlReadings(text) # {} => FindAllUrls(text, 1) = <<text>>
        /\ text \in {url_alice, url_alice_slash} => usernames = {alice_at_example}

C4_Witness ==
    /\ pc = "extracted"
    /\ text = url_alice_slash
    /\ usernames = {alice_at_example}

\* '@x@y@z': three '@', each followed by a non-empty run of word
\* characters, dots and hyphens, and nothing else
RunTogether(t) ==
    /\ Count(t, "@") = 3
    /\ t # <<>> /\ t[1] = "@" /\ t[Len(t)] \in WordChars
    /\ \A k \in 1..Len(t) : t[k] \in DomainClass \cup {"@"}
    /\ \A k \in 1..(Len(t) - 1) : t[k] = "@" => t[k + 1] # "@"

\* C8 as claimed: a text that is a run of handles without whitespace gives
\* no handle.
C8_RunTogetherGivesNothing ==
    (pc = "extracted and cleaned" /\ RunTogether(text)) => cleaned_usernames = <<>>

\* the substring t[i..e] has the shape '@<local>@<domain>': the local-part a
\* non-empty run of word characters, dots and hyphens, the domain a run of at
\* least minDomain such characters that ends in a word character
InlineShape(t, i, e, minDomain) ==
    /\ t[i] = "@"
    /\ \E j \in (i + 2)..(e - minDomain) :
          /\ t[j] = "@"
          /\ \A k \in (i + 1)..(j - 1) : t[k] \in WordChars \cup {".", "-"}
          /\ \A k \in (j + 1)..e : t[k] \in WordChars \cup {".", "-"}
          /\ t[e] \in WordChars

\* the occurrences <<i, e>> of the shape in t, each with its longest domain
Occurrences(t, minDomain) ==
    LET shaped == {o \in (1..Len(t)) \X (1..Len(t)) :
                      InlineShape(t, o[1], o[2], minDomain)}
    IN  {o \in shaped : \A x \in shaped : x[1] = o[1] => x[2] <= o[2]}

----------------------------------------------------------------------------
(* Properties of clean_usernames, checked under SpecClean.                 *)

\* C5: a candidate whose number of '@' is not two gives nothing, and the
\* handles of a call are those its candidates give one by one.
C5_MalformedDroppedOthersUnaffected ==
    pc = "cleaned" =>
        /\ \A c \in candidates :
              Count(c, "@") # 2 => clean_usernames(<<c>>) = <<>>
        /\ Range(cleaned_usernames) =
              UNION {Range(clean_usernames(<<c>>)) : c \in candidates}
        /\ Len(cleaned_usernames) <=
              Cardinality({c \in candidates : Count(c, "@") = 2})
        /\ \A h \in Range(cleaned_usernames) : Count(h, "@") = 2

C5_Witness ==
    /\ pc = "cleaned"
    /\ candidates = {run_together, bob_at_ex}
    /\ cleaned_usernames = <<bob_at_ex>>

\* C6: cleaning the list clean_usernames returned gives that list again,
\* and each of its handles cleaned alone is returned unchanged.
C6_CleanIsFixedPointOnItsOutput ==
    pc = "recleaned" =>
        /\ recleaned = cleaned_usernames
        /\ \A h \in Range(cleaned_usernames) : clean_usernames(<<h>>) = <<h>>

C6_Witness ==
    /\ pc = "recleaned"
    /\ candidates = {bob_paren_at_ex}
    /\ cleaned_usernames = <<bob_at_ex>>
    /\ recleaned = <<bob_at_ex>>

====
